---- MODULE Spec2Model ----
(***************************************************************************)
(* Model of py-polars/polars/functions/repeat.py: repeat, ones and zeros.  *)
(* A caller invokes one of the three functions; the call's collaborators   *)
(* (warnings.warn, plr.repeat_eager, plr.repeat_lazy, F.lit, alias) are    *)
(* recorded in a per-call log, and a returned expression may later be      *)
(* evaluated by the query engine.  The module keeps no state between       *)
(* calls: the variables describe the latest call and its result.           *)
(***************************************************************************)
EXTENDS Integers, Sequences, FiniteSets, TLC

\* ---------------------------------------------------------------- bounds
MaxLen == 2

\* ------------------------------------------------------- Python values
\* Integers are kept as hi * 2^16 + lo with 0 <= lo < 2^16, so that values
\* around the 32-bit boundary stay exact.
Half == 256 * 256

PyNone == [kind |-> "none", hi |-> 0, lo |-> 0, frac |-> 0, s |-> ""]
PyInt(hi, lo) == [kind |-> "int", hi |-> hi, lo |-> lo, frac |-> 0, s |-> ""]
\* a float with integral part hi * 2^16 + lo and frac tenths
PyFloat(hi, lo, frac) == [kind |-> "float", hi |-> hi, lo |-> lo, frac |-> frac, s |-> ""]
PyBool(b) == [kind |-> "bool", hi |-> 0, lo |-> IF b THEN 1 ELSE 0, frac |-> 0, s |-> ""]
PyStr(str) == [kind |-> "str", hi |-> 0, lo |-> 0, frac |-> 0, s |-> str]

Values ==
    { PyNone,
      PyInt(0, 5), PyInt(0, 200),
      PyInt(32767, 65535),      \* 2^31 - 1
      PyInt(32768, 0),          \* 2^31
      PyInt(-32769, 65535),     \* -2^31 - 1
      PyFloat(0, 1, 0), PyFloat(0, 2, 5),
      PyStr("z"), PyBool(TRUE) }

\* dtype = None
NoDtype == "None"
Float64 == "Float64"
Dtypes == {NoDtype, "Int8", "Int32", "Int64", Float64, "Utf8"}
\* the dtype argument is not passed
Unset == "<unset>"

\* name = None
NoName == "None"
Names == {NoName, "a"}

\* ------------------------------------------------------------- lengths
\* n: Expr | int.  An int literal, or an expression: a lit node or a
\* computation whose value is only known when the plan is evaluated.
IntLen(k) == [tag |-> "int", node |-> "", v |-> k]
ExprLit(k) == [tag |-> "Expr", node |-> "lit", v |-> k]
ExprLen == [tag |-> "Expr", node |-> "len", v |-> 0]
LitLens == {IntLen(k) : k \in -1..MaxLen}
Lens == LitLens \cup {ExprLen, ExprLit(1)}

isinstance_int(n) == n.tag = "int"

\* ------------------------------------------------ results and errors
NoResult == [kind |-> "None"]
TypeError == [kind |-> "Error", type |-> "TypeError"]
EngineError == [kind |-> "Error", type |-> "EngineError"]
IsError(r) == r.kind = "Error"

\* ----------------------------------------------- engine (collaborators)
FitsInt8(v) == (v.hi = 0 /\ v.lo <= 127) \/ (v.hi = -1 /\ v.lo >= Half - 128)
FitsInt32(v) == v.hi >= -(Half \div 2) /\ v.hi <= (Half \div 2) - 1

\* dtype inferred from the value when dtype is None
InferDtype(value) ==
    CASE value.kind = "int" -> IF FitsInt32(value) THEN "Int32" ELSE "Int64"
      [] value.kind = "float" -> Float64
      [] value.kind = "bool" -> "Boolean"
      [] value.kind = "str" -> "Utf8"
      [] OTHER -> "Null"

ResolveDtype(value, dtype) == IF dtype = NoDtype THEN InferDtype(value) ELSE dtype

CastError == [kind |-> "casterror", hi |-> 0, lo |-> 0, frac |-> 0, s |-> ""]

FitsIntType(v, dt) ==
    CASE dt = "Int8" -> FitsInt8(v)
      [] dt = "Int32" -> FitsInt32(v)
      [] OTHER -> TRUE

\* value cast to a dtype; CastError when the dtype cannot represent it
Cast(value, dt) ==
    CASE value.kind = "none" -> PyNone
      [] value.kind = "int" /\ dt \in {"Int8", "Int32", "Int64"} ->
            IF FitsIntType(value, dt) THEN value ELSE CastError
      [] value.kind = "int" /\ dt = Float64 -> PyFloat(value.hi, value.lo, 0)
      [] value.kind = "float" /\ dt = Float64 -> value
      [] value.kind = "float" /\ dt \in {"Int8", "Int32", "Int64"} ->
            IF value.frac = 0 /\ FitsIntType(value, dt)
            THEN PyInt(value.hi, value.lo) ELSE CastError
      [] value.kind = "str" /\ dt = "Utf8" -> value
      [] value.kind = "bool" /\ dt = "Boolean" -> value
      [] OTHER -> CastError

Series(name, dtype, elems) ==
    [kind |-> "Series", name |-> name, dtype |-> dtype, elems |-> elems]

\* plr.repeat_eager(value, n, dtype) wrapped by wrap_s
repeat_eager(value, n, dtype) ==
    LET dt == ResolveDtype(value, dtype)
        e == Cast(value, dt)
    IN IF n.v < 0 \/ e = CastError THEN EngineError
       ELSE Series("repeat", dt, [i \in 1..n.v |-> e])

\* plr.repeat_lazy(value, n._pyexpr, dtype) wrapped by wrap_expr
repeat_lazy(value, n, dtype) ==
    [kind |-> "Expr", name |-> "repeat", value |-> value, n |-> n, dtype |-> dtype]

\* F.lit(n)
lit(n) == ExprLit(n.v)

\* Series.alias / Expr.alias
alias(x, name) == [x EXCEPT !.name = name]

\* evaluation of a plan node whose length expression resolves to k
Evaluate(expr, k) ==
    LET s == repeat_eager(expr.value, IntLen(k), expr.dtype)
    IN IF IsError(s) THEN s ELSE alias(s, expr.name)

\* ------------------------------------------------- collaborator log
Invoked(fn, args) == [fn |-> fn, args |-> args]
CountOf(l, fn) == Cardinality({i \in 1..Len(l) : l[i].fn = fn})

\* a finished call: what the caller gets and what the call invoked
Done(ret, l) == [ret |-> ret, log |-> l]

\* --------------------------------------------------------------- repeat
\* variant: the warning is emitted whether or not name is given
deprecation_always(name) ==
    <<Invoked("warn", <<"DeprecationWarning">>)>>

\* if name is not None: warnings.warn(...)
deprecation(name) ==
    IF name # NoName THEN <<Invoked("warn", <<"DeprecationWarning">>)>> ELSE <<>>

\* variant: the kind of n is not checked
repeat_eager_branch_unchecked(value, n, dtype, name, w) ==
    LET series == repeat_eager(value, n, dtype)
        l == Append(w, Invoked("repeat_eager", <<value, n, dtype>>))
    IN IF IsError(series) THEN Done(series, l)
       ELSE IF name # NoName
            THEN Done(alias(series, name), Append(l, Invoked("alias", <<name>>)))
            ELSE Done(series, l)

\* variant: the check reads "if not n" and rejects a zero length too
repeat_eager_branch_rejects_zero(value, n, dtype, name, w) ==
    IF ~isinstance_int(n) \/ n.v = 0 THEN Done(TypeError, w)
    ELSE LET series == repeat_eager(value, n, dtype)
             l == Append(w, Invoked("repeat_eager", <<value, n, dtype>>))
         IN IF IsError(series) THEN Done(series, l)
            ELSE IF name # NoName
                 THEN Done(alias(series, name), Append(l, Invoked("alias", <<name>>)))
                 ELSE Done(series, l)

\* variant: dtype is not handed to the engine
repeat_eager_branch_drops_dtype(value, n, dtype, name, w) ==
    IF ~isinstance_int(n) THEN Done(TypeError, w)
    ELSE LET series == repeat_eager(value, n, NoDtype)
             l == Append(w, Invoked("repeat_eager", <<value, n, NoDtype>>))
         IN IF IsError(series) THEN Done(series, l)
            ELSE IF name # NoName
                 THEN Done(alias(series, name), Append(l, Invoked("alias", <<name>>)))
                 ELSE Done(series, l)

\* variant: a negative n is rejected by repeat itself, before the engine
repeat_eager_branch_validates(value, n, dtype, name, w) ==
    IF ~isinstance_int(n) \/ n.v < 0 THEN Done(TypeError, w)
    ELSE LET series == repeat_eager(value, n, dtype)
             l == Append(w, Invoked("repeat_eager", <<value, n, dtype>>))
         IN IF IsError(series) THEN Done(series, l)
            ELSE IF name # NoName
                 THEN Done(alias(series, name), Append(l, Invoked("alias", <<name>>)))
                 ELSE Done(series, l)

\* the eager branch; w is the log so far
repeat_eager_branch(value, n, dtype, name, w) ==
    IF ~isinstance_int(n) THEN Done(TypeError, w)
    ELSE LET series == repeat_eager(value, n, dtype)
             l == Append(w, Invoked("repeat_eager", <<value, n, dtype>>))
         IN IF IsError(series) THEN Done(series, l)
            ELSE IF name # NoName
                 THEN Done(alias(series, name), Append(l, Invoked("alias", <<name>>)))
                 ELSE Done(series, l)

\* variant: dtype is not handed to the plan-node constructor
repeat_lazy_branch_drops_dtype(value, n, dtype, name, w) ==
    LET wrapped == isinstance_int(n)
        n1 == IF wrapped THEN lit(n) ELSE n
        l1 == IF wrapped THEN Append(w, Invoked("lit", <<n>>)) ELSE w
        expr == repeat_lazy(value, n1, NoDtype)
        l2 == Append(l1, Invoked("repeat_lazy", <<value, n1, NoDtype>>))
    IN IF IsError(expr) THEN Done(expr, l2)
       ELSE IF name # NoName
            THEN Done(alias(expr, name), Append(l2, Invoked("alias", <<name>>)))
            ELSE Done(expr, l2)

\* variant: the expression is returned without the rename
repeat_lazy_branch_no_alias(value, n, dtype, name, w) ==
    LET wrapped == isinstance_int(n)
        n1 == IF wrapped THEN lit(n) ELSE n
        l1 == IF wrapped THEN Append(w, Invoked("lit", <<n>>)) ELSE w
        expr == repeat_lazy(value, n1, dtype)
        l2 == Append(l1, Invoked("repeat_lazy", <<value, n1, dtype>>))
    IN Done(expr, l2)

\* variant: n is wrapped by lit whatever its kind
repeat_lazy_branch_always_lit(value, n, dtype, name, w) ==
    LET n1 == lit(n)
        l1 == Append(w, Invoked("lit", <<n>>))
        expr == repeat_lazy(value, n1, dtype)
        l2 == Append(l1, Invoked("repeat_lazy", <<value, n1, dtype>>))
    IN IF IsError(expr) THEN Done(expr, l2)
       ELSE IF name # NoName
            THEN Done(alias(expr, name), Append(l2, Invoked("alias", <<name>>)))
            ELSE Done(expr, l2)

\* the lazy branch; w is the log so far
repeat_lazy_branch(value, n, dtype, name, w) ==
    LET wrapped == isinstance_int(n)
        n1 == IF wrapped THEN lit(n) ELSE n
        l1 == IF wrapped THEN Append(w, Invoked("lit", <<n>>)) ELSE w
        expr == repeat_lazy(value, n1, dtype)
        l2 == Append(l1, Invoked("repeat_lazy", <<value, n1, dtype>>))
    IN IF IsError(expr) THEN Done(expr, l2)
       ELSE IF name # NoName
            THEN Done(alias(expr, name), Append(l2, Invoked("alias", <<name>>)))
            ELSE Done(expr, l2)

repeat(value, n, dtype, eager, name) ==
    IF eager
    THEN repeat_eager_branch(value, n, dtype, name, deprecation(name))
    ELSE repeat_lazy_branch(value, n, dtype, name, deprecation(name))

\* ---------------------------------------------------------- ones, zeros
\* x.alias(fixed) applied to the value repeat returned; an exception raised
\* by repeat leaves the call before alias is reached
then_alias(r, fixed) ==
    IF IsError(r.ret) THEN r
    ELSE Done(alias(r.ret, fixed), Append(r.log, Invoked("alias", <<fixed>>)))

\* dtype: PolarsDataType = Float64
default_dtype(dtype) == IF dtype = Unset THEN Float64 ELSE dtype

\* variant: without a dtype the builder is left to infer it
ones_inferred_dtype(n, dtype, eager) ==
    then_alias(repeat(PyFloat(0, 1, 0), n, IF dtype = Unset THEN NoDtype ELSE dtype,
                      eager, NoName), "ones")

\* variant: ones enforces its n: int annotation itself
ones_int_only(n, dtype, eager) ==
    IF ~isinstance_int(n) THEN Done(TypeError, <<>>)
    ELSE then_alias(repeat(PyFloat(0, 1, 0), n, default_dtype(dtype), eager, NoName),
                    "ones")

ones(n, dtype, eager) ==
    then_alias(repeat(PyFloat(0, 1, 0), n, default_dtype(dtype), eager, NoName), "ones")

zeros(n, dtype, eager) ==
    then_alias(repeat(PyFloat(0, 0, 0), n, default_dtype(dtype), eager, NoName), "zeros")

\* ---------------------------------------------------------------- state
VARIABLES call, outcome, log, collected
vars == <<call, outcome, log, collected>>

NoCall == [fn |-> "none"]
NotCollected == [k |-> -2, col |-> NoResult]

Init ==
    /\ call = NoCall
    /\ outcome = NoResult
    /\ log = <<>>
    /\ collected = NotCollected

Repeat ==
    /\ \E value \in Values, n \in Lens, dtype \in Dtypes, eager \in BOOLEAN, name \in Names :
         LET r == repeat(value, n, dtype, eager, name)
         IN /\ call' = [fn |-> "repeat", value |-> value, n |-> n, dtype |-> dtype,
                        eager |-> eager, name |-> name]
            /\ outcome' = r.ret
            /\ log' = r.log
    /\ collected' = NotCollected

Ones ==
    /\ \E n \in Lens, dtype \in Dtypes \cup {Unset}, eager \in BOOLEAN :
         LET r == ones(n, dtype, eager)
         IN /\ call' = [fn |-> "ones", n |-> n, dtype |-> dtype, eager |-> eager]
            /\ outcome' = r.ret
            /\ log' = r.log
    /\ collected' = NotCollected

Zeros ==
    /\ \E n \in Lens, dtype \in Dtypes \cup {Unset}, eager \in BOOLEAN :
         LET r == zeros(n, dtype, eager)
         IN /\ call' = [fn |-> "zeros", n |-> n, dtype |-> dtype, eager |-> eager]
            /\ outcome' = r.ret
            /\ log' = r.log
    /\ collected' = NotCollected

\* the query engine evaluates the returned expression; a length that is
\* not a lit node resolves to whatever the evaluation context gives
Collect ==
    /\ outcome.kind = "Expr"
    /\ \E k \in -1..MaxLen :
         /\ outcome.n.node = "lit" => k = outcome.n.v
         /\ collected' = [k |-> k, col |-> Evaluate(outcome, k)]
    /\ UNCHANGED <<call, outcome, log>>

Next == Repeat \/ Ones \/ Zeros \/ Collect

Spec == Init /\ [][Next]_vars

\* ------------------------------------------------------------ helpers
IsRepeat == call.fn = "repeat"
IsWrapper == call.fn \in {"ones", "zeros"}
Entries(fn) == SelectSeq(log, LAMBDA e : e.fn = fn)
EngineFn == IF call.eager THEN "repeat_eager" ELSE "repeat_lazy"
\* the length the plan-node constructor is given for the caller's n
Deferred(n) == IF n.tag = "int" THEN ExprLit(n.v) ELSE n

\* C1: an eager call of repeat with a length that is not a literal integer
\* fails with TypeError; repeat_eager is not invoked, nothing is returned and
\* no rename is applied.
C1_EagerDeferredRejected ==
    (IsRepeat /\ call.eager /\ call.n.tag # "int") =>
        /\ outcome = TypeError
        /\ CountOf(log, "repeat_eager") = 0
        /\ CountOf(log, "repeat_lazy") = 0
        /\ CountOf(log, "alias") = 0

C1_Witness ==
    /\ IsRepeat /\ call.eager /\ call.n = ExprLen /\ call.name # NoName
    /\ call.dtype # NoDtype
    /\ outcome = TypeError

\* C2: an eager call of repeat with a literal n >= 0 and a value the resolved
\* dtype can represent returns a column of length exactly n whose every
\* element is the value cast to the resolved dtype; n = 0 gives an empty
\* column of that dtype.
C2_EagerColumn ==
    (IsRepeat /\ call.eager /\ call.n.tag = "int" /\ call.n.v >= 0
       /\ Cast(call.value, ResolveDtype(call.value, call.dtype)) # CastError) =>
        /\ outcome.kind = "Series"
        /\ outcome.dtype = ResolveDtype(call.value, call.dtype)
        /\ Len(outcome.elems) = call.n.v
        /\ \A i \in 1..Len(outcome.elems) :
              outcome.elems[i] = Cast(call.value, outcome.dtype)
        /\ (call.n.v = 0 => outcome.elems = <<>>)

C2_Witness ==
    /\ IsRepeat /\ call.eager /\ call.n = IntLen(0) /\ call.dtype = "Int8"
    /\ call.value = PyInt(0, 5)
    /\ outcome = Series("repeat", "Int8", <<>>)

\* C3: a lazy call of repeat invokes only the plan-node constructor, never
\* repeat_eager, and the node it returns, evaluated with its length resolved
\* to k, gives what the eager call with literal k gives for the same value,
\* dtype and name.
C3_LazyEqualsEager ==
    (IsRepeat /\ ~call.eager) =>
        /\ CountOf(log, "repeat_eager") = 0
        /\ CountOf(log, "repeat_lazy") = 1
        /\ outcome.kind = "Expr"
        /\ collected # NotCollected =>
             collected.col =
               repeat(call.value, IntLen(collected.k), call.dtype, TRUE, call.name).ret

C3_Witness ==
    /\ IsRepeat /\ ~call.eager /\ call.n = ExprLen /\ call.name = "a"
    /\ call.dtype = "Int64" /\ call.value = PyInt(32768, 0)
    /\ collected.k = MaxLen
    /\ collected.col.kind = "Series"
    /\ Len(collected.col.elems) = MaxLen

\* the fixed value and the fixed name of the wrapper that was called
FixedValue == IF call.fn = "ones" THEN PyFloat(0, 1, 0) ELSE PyFloat(0, 0, 0)
FixedName == call.fn

\* C4: for a literal n >= 0 in both modes, ones hands the builder the value
\* 1.0 and zeros the value 0.0 over length n; the dtype handed over is
\* Float64 when the caller gives none and the caller's dtype unchanged
\* otherwise; a returned result is named "ones" respectively "zeros".
C4_OnesZeros ==
    (IsWrapper /\ call.n.tag = "int" /\ call.n.v >= 0) =>
        /\ Len(Entries(EngineFn)) = 1
        /\ Entries(EngineFn)[1].args =
             << FixedValue,
                IF call.eager THEN call.n ELSE Deferred(call.n),
                IF call.dtype = Unset THEN Float64 ELSE call.dtype >>
        /\ ~IsError(outcome) =>
             /\ outcome.name = FixedName
             /\ outcome.kind = IF call.eager THEN "Series" ELSE "Expr"
        /\ (call.eager /\ ~IsError(outcome)) =>
             /\ Len(outcome.elems) = call.n.v
             /\ \A i \in 1..Len(outcome.elems) :
                   outcome.elems[i] = Cast(FixedValue, outcome.dtype)
             /\ call.dtype = Unset => outcome.dtype = Float64

C4_Witness ==
    /\ call.fn = "ones" /\ call.eager /\ call.dtype = Unset /\ call.n = IntLen(2)
    /\ outcome = Series("ones", Float64, <<PyFloat(0, 1, 0), PyFloat(0, 1, 0)>>)

\* C5: a successful call of repeat with a name returns a result carrying
\* exactly that name, the rename being the last thing the call does, after
\* the engine call; without a name no rename is applied and the result keeps
\* the engine's name; apart from the name the result is that of the same
\* call without the name.
C5_Rename ==
    (IsRepeat /\ ~IsError(outcome)) =>
        LET plain == repeat(call.value, call.n, call.dtype, call.eager, NoName).ret
        IN /\ call.name # NoName =>
                /\ outcome.name = call.name
                /\ log[Len(log)] = Invoked("alias", <<call.name>>)
                /\ log[Len(log) - 1].fn = EngineFn
                /\ CountOf(log, "alias") = 1
           /\ call.name = NoName =>
                /\ CountOf(log, "alias") = 0
                /\ outcome.name = "repeat"
                /\ log[Len(log)].fn = EngineFn
           /\ ~IsError(plain)
           /\ [outcome EXCEPT !.name = ""] = [plain EXCEPT !.name = ""]

C5_Witness ==
    /\ IsRepeat /\ ~call.eager /\ call.name = "a" /\ call.n = IntLen(1)
    /\ outcome.kind = "Expr" /\ outcome.name = "a"
    /\ log[Len(log)].fn = "alias"

\* C6: every call of repeat, successful or not, emits the deprecation
\* warning exactly once when name is given and never otherwise; apart from
\* that the call invokes the same engine functions and ends the same way as
\* the call without the name, up to the rename.  ones and zeros never emit
\* the warning.
NoWarn(l) == SelectSeq(l, LAMBDA e : e.fn \notin {"warn", "alias"})

C6_WarnOnce ==
    /\ IsRepeat =>
         LET plain == repeat(call.value, call.n, call.dtype, call.eager, NoName)
         IN /\ CountOf(log, "warn") = IF call.name # NoName THEN 1 ELSE 0
            /\ NoWarn(log) = NoWarn(plain.log)
            /\ IsError(outcome) <=> IsError(plain.ret)
            /\ IsError(outcome) => outcome = plain.ret
            /\ ~IsError(outcome) => outcome.kind = plain.ret.kind
    /\ IsWrapper => CountOf(log, "warn") = 0

C6_Witness ==
    /\ IsRepeat /\ call.eager /\ call.name = "a" /\ call.n = IntLen(-1)
    /\ outcome = EngineError
    /\ CountOf(log, "warn") = 1

\* the dtype the documentation promises for a value when dtype is None
\* -2^31 <= hi * 2^16 + lo < 2^31 with 0 <= lo < 2^16
InInt32Range(v) == v.hi \in -(Half \div 2) .. (Half \div 2 - 1)
DocumentedDtype(v) ==
    CASE v.kind = "int" /\ InInt32Range(v) -> "Int32"
      [] v.kind = "int" /\ ~InInt32Range(v) -> "Int64"
      [] v.kind = "float" -> "Float64"
      [] v.kind = "str" -> "Utf8"
      [] v.kind = "bool" -> "Boolean"
      [] v.kind = "none" -> "Null"

\* the column a call of repeat ends in: returned (eager) or evaluated (lazy)
FinalColumn == IF call.eager THEN outcome ELSE collected.col

\* C7: repeat hands an explicit dtype unchanged to the engine in both modes
\* and it is the dtype of the result; without a dtype the result's dtype
\* follows the value: Int32 for an integer in the 32-bit signed range, Int64
\* for any other integer, Float64 for a float, the one natural type for
\* every other kind.
C7_DtypeResolution ==
    (IsRepeat /\ Len(Entries(EngineFn)) > 0) =>
        /\ Entries(EngineFn)[1].args[3] = call.dtype
        /\ FinalColumn.kind = "Series" =>
             FinalColumn.dtype =
               IF call.dtype # NoDtype THEN call.dtype ELSE DocumentedDtype(call.value)

C7_Witness ==
    /\ IsRepeat /\ call.eager /\ call.dtype = NoDtype /\ call.value = PyInt(32768, 0)
    /\ call.n = IntLen(1)
    /\ outcome.kind = "Series" /\ outcome.dtype = "Int64"

\* C8: ones fails exactly when repeat(1.0, n, dtype, eager) fails and zeros
\* exactly when repeat(0.0, n, dtype, eager) fails, with that call's error
\* (TypeError for an eager call with a deferred n); a failed call applies no
\* rename.
C8_WrapperFailures ==
    IsWrapper =>
        LET under == repeat(FixedValue, call.n,
                            IF call.dtype = Unset THEN Float64 ELSE call.dtype,
                            call.eager, NoName)
        IN /\ IsError(outcome) <=> IsError(under.ret)
           /\ IsError(outcome) =>
                /\ outcome = under.ret
                /\ log = under.log
                /\ CountOf(log, "alias") = 0
           /\ (call.eager /\ call.n.tag # "int") => outcome = TypeError

C8_Witness ==
    /\ call.fn = "zeros" /\ call.eager /\ call.n = ExprLit(1) /\ call.dtype = "Int8"
    /\ outcome = TypeError /\ log = <<>>

C10_LengthNormalization ==
    IsRepeat =>
        /\ ~call.eager =>
             /\ CountOf(log, "lit") = IF call.n.tag = "int" THEN 1 ELSE 0
             /\ Len(Entries("repeat_lazy")) = 1
             /\ Entries("repeat_lazy")[1].args[2].tag = "Expr"
             /\ Entries("repeat_lazy")[1].args =
                  <<call.value, Deferred(call.n), call.dtype>>
             /\ outcome.n = Deferred(call.n)
             /\ outcome.value = call.value /\ outcome.dtype = call.dtype
             /\ call.n.tag = "int" =>
                  \E i, j \in 1..Len(log) :
                     /\ i < j
                     /\ log[i] = Invoked("lit", <<call.n>>)
                     /\ log[j].fn = "repeat_lazy"
        /\ call.eager =>
             /\ CountOf(log, "lit") = 0
             /\ \A i \in 1..Len(log) :
                   log[i].fn = "repeat_eager" => log[i].args[2] = call.n

C10_Witness ==
    /\ IsRepeat /\ ~call.eager /\ call.n = IntLen(2) /\ call.name = NoName
    /\ log = << Invoked("lit", <<IntLen(2)>>),
                Invoked("repeat_lazy", <<call.value, ExprLit(2), call.dtype>>) >>

====
